---- MODULE Spec2Model ----
(***************************************************************************)
(* Model of the agentwarden Python SDK: one governed Session driven either *)
(* through the AgentWarden.session() context manager or directly by the    *)
(* caller, against a policy server reached through AgentWarden._post.      *)
(***************************************************************************)
EXTENDS Integers, Sequences, FiniteSets, TLC

(***************************************************************************)
(* Bounds of the model.                                                    *)
(***************************************************************************)
\* number of Session operations (start, end, action, score, trace_llm) the
\* caller, or the body of the `async with` block, may issue in one run
MaxOps == 2
\* last value of the wall clock
MaxClock == 2

(***************************************************************************)
(* Values.                                                                 *)
(***************************************************************************)
\* Python's None, as an argument or a returned value
None == "None"

\* self._started_at before start(): None.  time.time() is never 0, so the
\* falsy test `if self._started_at` separates exactly None from a time.
Unset == 0

Drivers == {"cm", "direct"}

\* dict.get(key, default)
Get(d, k, default) == IF k \in DOMAIN d THEN d[k] ELSE default

(***************************************************************************)
(* Server responses to /v1/events/evaluate: a decoded JSON mapping with    *)
(* any subset of the optional fields.                                      *)
(***************************************************************************)
VerdictValues == {"allow", "deny", "approve", "terminate", "block"}
PayloadKeys == {"policy_name", "message", "suggestions", "approval_id", "timeout_seconds"}

PayloadValue(k) ==
    CASE k = "policy_name" -> "no-prod-deletes"
      [] k = "message" -> "blocked"
      [] k = "suggestions" -> <<"use staging">>
      [] k = "approval_id" -> "apr_42"
      [] k = "timeout_seconds" -> 300

Payload(keys) == [k \in keys |-> PayloadValue(k)]

\* a response with verdict v and the payload fields `keys`
Response(v, keys) ==
    [k \in keys \cup {"verdict"} |-> IF k = "verdict" THEN v ELSE PayloadValue(k)]

\* the responses the model enumerates: each verdict value, and no verdict at
\* all, with no payload and with the whole payload
Responses ==
    { Payload(ks) : ks \in {{}, PayloadKeys} }
    \cup { Response(v, ks) : v \in VerdictValues, ks \in {{}, PayloadKeys} }

(***************************************************************************)
(* Exceptions (exceptions.py, and the failure of AgentWarden._post).       *)
(***************************************************************************)
NoExc == [type |-> "none"]

\* Mutant of ActionDenied: the suggestions of the response are dropped.
ActionDeniedWithoutSuggestions(policy_name, message, suggestions) ==
    [type |-> "ActionDenied",
     policy_name |-> policy_name,
     suggestions |-> <<>>,
     args |-> <<message>>]

\* ActionDenied.__init__: suggestions or [], super().__init__(message)
ActionDenied(policy_name, message, suggestions) ==
    [type |-> "ActionDenied",
     policy_name |-> policy_name,
     suggestions |-> IF suggestions = <<>> THEN <<>> ELSE suggestions,
     args |-> <<message>>]

\* Mutant of ActionPendingApproval: the first two arguments are swapped.
ActionPendingApprovalSwapped(approval_id, policy_name, timeout_seconds) ==
    [type |-> "ActionPendingApproval",
     approval_id |-> policy_name,
     policy_name |-> approval_id,
     timeout_seconds |-> timeout_seconds,
     args |-> <<"Action pending approval: " \o policy_name>>]

\* ActionPendingApproval.__init__
ActionPendingApproval(approval_id, policy_name, timeout_seconds) ==
    [type |-> "ActionPendingApproval",
     approval_id |-> approval_id,
     policy_name |-> policy_name,
     timeout_seconds |-> timeout_seconds,
     args |-> <<"Action pending approval: " \o approval_id>>]

\* what _post raises when the request fails (httpx error or raise_for_status)
TransportError(path) == [type |-> "TransportError", path |-> path]

\* an exception raised by the caller's unit of work
WorkError == [type |-> "WorkError"]

(***************************************************************************)
(* Session._handle_verdict: the exception it raises, NoExc when it returns.*)
(***************************************************************************)
\* Mutant of _handle_verdict: the "terminate" branch is missing.
_handle_verdict_without_terminate(verdict) ==
    LET v == Get(verdict, "verdict", "allow") IN
    IF v = "deny" THEN
        [type |-> "ActionDenied", policy_name |-> Get(verdict, "policy_name", ""),
         suggestions |-> Get(verdict, "suggestions", <<>>),
         args |-> <<Get(verdict, "message", "Action denied")>>]
    ELSE IF v = "approve" THEN
        [type |-> "ActionPendingApproval", approval_id |-> Get(verdict, "approval_id", ""),
         policy_name |-> Get(verdict, "policy_name", ""),
         timeout_seconds |-> Get(verdict, "timeout_seconds", 0),
         args |-> <<"Action pending approval: " \o Get(verdict, "approval_id", "")>>]
    ELSE NoExc

\* Mutant of _handle_verdict: fail-closed, whatever is not "allow", "approve"
\* or "terminate" is denied, and a missing verdict counts as "deny".
_handle_verdict_fail_closed(verdict) ==
    LET v == Get(verdict, "verdict", "deny") IN
    IF v = "allow" THEN NoExc
    ELSE IF v = "approve" THEN
        [type |-> "ActionPendingApproval", approval_id |-> Get(verdict, "approval_id", ""),
         policy_name |-> Get(verdict, "policy_name", ""),
         timeout_seconds |-> Get(verdict, "timeout_seconds", 0),
         args |-> <<"Action pending approval: " \o Get(verdict, "approval_id", "")>>]
    ELSE
        [type |-> "ActionDenied", policy_name |-> Get(verdict, "policy_name", ""),
         suggestions |-> Get(verdict, "suggestions", <<>>),
         args |-> <<Get(verdict, "message", "Action denied")>>]

_handle_verdict(verdict) ==
    LET v == Get(verdict, "verdict", "allow") IN
    IF v = "deny" THEN
        ActionDenied(Get(verdict, "policy_name", ""),
                     Get(verdict, "message", "Action denied"),
                     Get(verdict, "suggestions", <<>>))
    ELSE IF v = "approve" THEN
        ActionPendingApproval(Get(verdict, "approval_id", ""),
                              Get(verdict, "policy_name", ""),
                              Get(verdict, "timeout_seconds", 0))
    ELSE IF v = "terminate" THEN
        ActionDenied(Get(verdict, "policy_name", ""),
                     Get(verdict, "message", "Session terminated"),
                     Get(verdict, "suggestions", <<>>))
    ELSE NoExc

(***************************************************************************)
(* The caller's inputs to the four action methods.                         *)
(***************************************************************************)
Methods == {"tool", "api_call", "db_query", "chat"}

\* A mapping (dict) is the sequence of its <<key, value>> items in insertion
\* order; a value is a tagged JSON scalar.
JStr(x) == [t |-> "str", v |-> x]
JInt(n) == [t |-> "int", v |-> ToString(n)]
EmptyDict == <<>>

\* json.dumps of a scalar
JsonScalar(j) == IF j.t = "str" THEN "\"" \o j.v \o "\"" ELSE j.v

RECURSIVE JsonItems(_)
JsonItems(items) ==
    IF items = <<>> THEN ""
    ELSE "\"" \o items[1][1] \o "\": " \o JsonScalar(items[1][2])
         \o (IF Len(items) > 1 THEN ", " ELSE "")
         \o JsonItems(Tail(items))

\* json.dumps(d) of a mapping with the default separators
JsonDumps(d) == "{" \o JsonItems(d) \o "}"

\* what the caller passes to tool() and api_call(): name, params, target
\* (an argument left out, params = None, is the empty mapping after `params or {}`)
ToolCalls ==
    { [name |-> "db.drop_table", params |-> EmptyDict, target |-> None] }
ApiCalls ==
    { [name |-> "github.merge_pr", params |-> <<<<"pr", JInt(42)>>>>, target |-> "org/repo"] }
\* what the caller passes to db_query(): query, target
DbQueries ==
    { [query |-> "DROP TABLE users", target |-> "production.users"] }
\* what the caller passes to chat(): model (messages are not sent)
ChatCalls ==
    { [model |-> "gpt-4o"] }

CallerArgs(method) ==
    CASE method = "tool" -> ToolCalls
      [] method = "api_call" -> ApiCalls
      [] method = "db_query" -> DbQueries
      [] method = "chat" -> ChatCalls

\* Mutant of EvaluateArgs: chat() names the action by the bare model.
EvaluateArgsBareModel(method, a) ==
    CASE method = "tool" ->
           [action_type |-> "tool.call", name |-> a.name, params |-> a.params, target |-> a.target]
      [] method = "api_call" ->
           [action_type |-> "api.request", name |-> a.name, params |-> a.params, target |-> a.target]
      [] method = "db_query" ->
           [action_type |-> "db.query", name |-> "db.query",
            params |-> <<<<"query", JStr(a.query)>>>>, target |-> a.target]
      [] method = "chat" ->
           [action_type |-> "llm.chat", name |-> a.model,
            params |-> <<<<"model", JStr(a.model)>>>>, target |-> None]

\* the arguments each public method hands to _evaluate
EvaluateArgs(method, a) ==
    CASE method = "tool" ->
           [action_type |-> "tool.call", name |-> a.name, params |-> a.params, target |-> a.target]
      [] method = "api_call" ->
           [action_type |-> "api.request", name |-> a.name, params |-> a.params, target |-> a.target]
      [] method = "db_query" ->
           [action_type |-> "db.query", name |-> "db.query",
            params |-> <<<<"query", JStr(a.query)>>>>, target |-> a.target]
      [] method = "chat" ->
           [action_type |-> "llm.chat", name |-> "llm.chat." \o a.model,
            params |-> <<<<"model", JStr(a.model)>>>>, target |-> None]

\* the execute argument: None, a coroutine function, a plain function, or a
\* plain function whose return value is awaitable
WorkKinds == {"coro", "sync", "sync_awaitable"}
ExecuteArgs == {None} \cup WorkKinds

\* how a unit of work ends: with a value, or with its own exception
WorkValues == {"result"}
WorkOutcomes ==
    { [kind |-> "return", value |-> v, exc |-> NoExc] : v \in WorkValues }
    \cup { [kind |-> "raise", value |-> None, exc |-> WorkError] }

Returned(v) == [kind |-> "return", value |-> v, exc |-> NoExc]
Raised(e) == [kind |-> "raise", value |-> None, exc |-> e]
NoResult == [kind |-> "none", value |-> None, exc |-> NoExc]


(***************************************************************************)
(* State.                                                                  *)
(***************************************************************************)
VARIABLES
    driver,         \* who drives the lifecycle: "cm" (AgentWarden.session) or "direct"
    session_id,     \* Session.session_id
    agent_id,       \* Session.agent_id
    agent_version,  \* Session.agent_version
    metadata,       \* Session.metadata
    _cost,          \* Session._cost
    _action_count,  \* Session._action_count
    _started_at,    \* Session._started_at
    now,            \* time.time(), in whole seconds
    pc,             \* where the single flow of control of the run is
    requests,       \* every request handed to AgentWarden._post, in order
    call,           \* the action call in progress, or the last one completed
    result,         \* what the last completed Session operation gave its caller
    exit,           \* how the body of the `async with` block left it
    outcome,        \* what the caller of the `async with` block receives
    ops,            \* Session operations issued so far
    client,         \* the AgentWarden client the sessions were constructed on
    fleet,          \* further Sessions constructed on that client, by name
    wire,           \* every request those Sessions handed to _post, in order
    _default_client,\* decorators._default_client
    constructed,    \* how many clients get_default_client() has constructed
    obtained,       \* per task: the client its call obtained, and how far it is
    run,            \* the run of a framework adapter (GovernedRunner, GovernedCrew)
    handler         \* an AgentWardenCallbackHandler, its sessions and its callbacks

session == <<session_id, agent_id, agent_version, metadata, _cost, _action_count, _started_at>>
process == <<_default_client, constructed, obtained, run, handler>>
shared == <<client, fleet, wire, process>>
vars == <<driver, session_id, agent_id, agent_version, metadata, _cost, _action_count,
          _started_at, now, pc, requests, call, result, exit, outcome, ops,
          client, fleet, wire, _default_client, constructed, obtained, run, handler>>

\* An action call: the method and its execute argument, how many times the
\* unit of work has been invoked, what came back from the evaluation request
\* (got, resp), how the unit of work itself ended (work) and what the method
\* gave its caller (ret).
NewCall(method, a, execute) ==
    [method |-> method, args |-> a, execute |-> execute, execs |-> 0,
     got |-> "nothing", resp |-> Payload({}), work |-> NoResult, ret |-> NoResult]
NoCall == NewCall("none", [name |-> None], None)

\* the sessions the model constructs: the token uuid4 gave the session, and
\* agent_id, agent_version and metadata as given.  AgentWarden.session() is
\* called with agent_id alone and fills in the defaults; a caller constructing
\* the Session itself has to pass every argument.
Construction(d) ==
    IF d = "cm"
    THEN [sid |-> "ses_1a2b3c4d", agent_id |-> "support-bot", agent_version |-> None,
          metadata |-> EmptyDict, given |-> FALSE]
    ELSE [sid |-> "ses_9f8e7d6c", agent_id |-> "billing-bot", agent_version |-> "v2",
          metadata |-> <<<<"env", "prod">>>>, given |-> TRUE]

\* Session.__init__, with the defaults AgentWarden.session() fills in
SessionInit(a) ==
    /\ session_id = a.sid
    /\ agent_id = a.agent_id
    /\ agent_version = (IF a.agent_version = None THEN "v1" ELSE a.agent_version)
    /\ metadata = (IF a.given THEN a.metadata ELSE EmptyDict)
    /\ _cost = 0
    /\ _action_count = 0
    /\ _started_at = Unset

\* AgentWarden.__init__ with no arguments and no environment variables set
ClientInit ==
    [host |-> "localhost", port |-> 6777, grpc_port |-> 6778, use_grpc |-> FALSE,
     api_key |-> None]

\* the Sessions constructed side by side on one client
Fleet == {"s1", "s2"}

\* Session.__init__ for each of them: one made with agent_id alone, one with
\* every argument
FleetInit(k) ==
    LET a == Construction(IF k = "s1" THEN "cm" ELSE "direct")
    IN [session_id |-> a.sid,
        agent_id |-> a.agent_id,
        agent_version |-> (IF a.agent_version = None THEN "v1" ELSE a.agent_version),
        metadata |-> (IF a.given THEN a.metadata ELSE EmptyDict),
        _cost |-> 0,
        _action_count |-> 0,
        _started_at |-> Unset,
        pc |-> "new"]

\* a client object: the one the caller constructed and passed to @governed,
\* or the n-th one constructed by get_default_client(); NoClient is None
NoClient == [made_by |-> "nobody", n |-> 0]
ExplicitClient == [made_by |-> "caller", n |-> 0]
DefaultClient(n) == [made_by |-> "get_default_client", n |-> n]

\* the tasks of the process that call a decorated function or
\* get_default_client()
Tasks == {"t1", "t2", "t3"}
NotCalled == [by |-> "none", explicit |-> FALSE, warden |-> NoClient, pc |-> "new"]

\* the run of an adapter: which entry point, how often the framework's
\* runner was invoked, the items of its result still to be traced, the two
\* locals of the except clauses, what is leaving the try block, the chat
\* call that gates the run, whether a traced item was denied, and how many
\* scores were attempted
NoRun ==
    [adapter |-> "none", invoked |-> 0, items |-> <<>>, error_occurred |-> FALSE,
     error_message |-> "", leaving |-> NoResult, chat |-> NoCall,
     trace_denied |-> FALSE, scores |-> 0]

\* the callbacks of the framework that can be in flight at once
MaxInFlight == 2
Slots == 1..MaxInFlight
NoCallback == [event |-> "none", at |-> "idle", session |-> 0]

\* AgentWardenCallbackHandler.__init__: no session (0 is None, n the n-th
\* Session the handler constructed).  With it: the Sessions constructed so
\* far, the chains open, the events delivered, the requests sent, the
\* callbacks in flight and the exceptions that left a callback.
HandlerInit ==
    [_session |-> 0, sessions |-> <<>>, open |-> 0, events |-> 0, sent |-> <<>>,
     slots |-> [c \in Slots |-> NoCallback], raised |-> {}]

Init ==
    /\ handler = HandlerInit
    /\ run = NoRun
    /\ _default_client = NoClient
    /\ constructed = 0
    /\ obtained = [t \in Tasks |-> NotCalled]
    /\ client = ClientInit
    /\ fleet = [k \in Fleet |-> FleetInit(k)]
    /\ wire = <<>>
    /\ driver \in Drivers
    /\ SessionInit(Construction(driver))
    /\ now = 1
    /\ pc = IF driver = "cm" THEN "new" ELSE "idle"
    /\ requests = <<>>
    /\ call = NoCall
    /\ result = NoResult
    /\ exit = NoResult
    /\ outcome = NoResult
    /\ ops = 0

(***************************************************************************)
(* Requests, as AgentWarden._post receives them: path and JSON body.       *)
(***************************************************************************)
StartPath == "/v1/sessions/start"
EvaluatePath == "/v1/events/evaluate"
EndPath(sid) == "/v1/sessions/" \o sid \o "/end"
ScorePath(sid) == "/v1/sessions/" \o sid \o "/score"

\* the body Session.start posts
StartRequest ==
    [path |-> StartPath,
     body |-> [session_id |-> session_id, agent_id |-> agent_id,
               agent_version |-> agent_version, metadata |-> metadata]]

\* Mutant of EndRequest: the session is named by its agent_id.
EndRequestByAgentId ==
    [path |-> EndPath(agent_id), body |-> [session_id |-> agent_id]]

\* the body Session.end posts
EndRequest ==
    [path |-> EndPath(session_id), body |-> [session_id |-> session_id]]

\* Mutant of Duration: the difference is taken without testing _started_at.
DurationUnguarded == now - _started_at

\* int(time.time() - self._started_at) if self._started_at else 0
Duration == IF _started_at # Unset THEN now - _started_at ELSE 0

\* Mutant of ContextCount: the count as it was before the increment.
ContextCountBeforeIncrement(count) == count - 1

\* "session_action_count": self._action_count, read after the increment
ContextCount(count) == count

\* Mutant of EvaluateRequest: the request carries an empty metadata mapping.
EvaluateRequestWithoutMetadata(e, count) ==
    [path |-> EvaluatePath,
     body |-> [session_id |-> session_id, agent_id |-> agent_id,
               agent_version |-> agent_version,
               action |-> [type |-> e.action_type, name |-> e.name,
                           params_json |-> JsonDumps(e.params),
                           target |-> IF e.target = None THEN "" ELSE e.target],
               context |-> [session_cost |-> _cost,
                            session_action_count |-> ContextCount(count),
                            session_duration_seconds |-> Duration],
               metadata |-> EmptyDict]]

\* the body Session._evaluate posts, given the counter it has just advanced
EvaluateRequest(e, count) ==
    [path |-> EvaluatePath,
     body |-> [session_id |-> session_id, agent_id |-> agent_id,
               agent_version |-> agent_version,
               action |-> [type |-> e.action_type, name |-> e.name,
                           params_json |-> JsonDumps(e.params),
                           target |-> IF e.target = None THEN "" ELSE e.target],
               context |-> [session_cost |-> _cost,
                            session_action_count |-> ContextCount(count),
                            session_duration_seconds |-> Duration],
               metadata |-> metadata]]

\* what the caller passes to score(): task_completed, quality, metadata
ScoreCalls ==
    { [task_completed |-> TRUE, quality |-> "0.9", metadata |-> <<<<"response_length", JInt(12)>>>>] }

\* {k: str(v) for k, v in (metadata or {}).items()}
RECURSIVE StrValues(_)
StrValues(items) ==
    IF items = <<>> THEN <<>>
    ELSE <<<<items[1][1], items[1][2].v>>>> \o StrValues(Tail(items))

\* Mutant of ScoreRequest: the score is posted without its metrics.
ScoreRequestWithoutMetrics(a) ==
    [path |-> ScorePath(session_id),
     body |-> [session_id |-> session_id,
               task_completed |-> a.task_completed,
               quality |-> IF a.quality = None THEN "0.0" ELSE a.quality]]

\* the body Session.score posts
ScoreRequest(a) ==
    [path |-> ScorePath(session_id),
     body |-> [session_id |-> session_id,
               task_completed |-> a.task_completed,
               quality |-> IF a.quality = None THEN "0.0" ELSE a.quality,
               metrics |-> StrValues(a.metadata)]]


(***************************************************************************)
(* Session.start and Session.end.                                          *)
(***************************************************************************)
\* start(): set _started_at, post the registration, suspend on the reply.
\* Called by the caller ("direct"), or by AgentWarden.session() on entry.
start ==
    /\ \/ driver = "direct" /\ pc = "idle" /\ ops < MaxOps /\ ops' = ops + 1
       \/ driver = "cm" /\ pc = "new" /\ ops' = ops
    /\ _started_at' = now
    /\ requests' = Append(requests, StartRequest)
    /\ pc' = "start_wait"
    /\ UNCHANGED <<shared, driver, session_id, agent_id, agent_version, metadata, _cost,
                   _action_count, now, call, result, exit, outcome>>

\* the registration is answered: start() returns; under the context manager
\* the session is yielded to the body
StartResponds ==
    /\ pc = "start_wait"
    /\ result' = Returned(None)
    /\ pc' = "idle"
    /\ UNCHANGED <<shared, driver, session, now, requests, call, exit, outcome, ops>>

\* Mutant of LeftBeforeBody: the failure of start() is caught and the session
\* is yielded to the body all the same.
YieldedAnyway == "idle"

\* where the flow is once `await session.start()` has raised in
\* AgentWarden.session(): the call stands before the try block, so the
\* generator is left without yielding and without running the finally clause
LeftBeforeBody == "exited"

\* the registration fails in _post: start() raises; under the context manager
\* the exception leaves AgentWarden.session() before the try block
StartFails ==
    /\ pc = "start_wait"
    /\ result' = Raised(TransportError(StartPath))
    /\ IF driver = "cm"
       THEN /\ outcome' = Raised(TransportError(StartPath))
            /\ pc' = LeftBeforeBody
       ELSE /\ outcome' = outcome
            /\ pc' = "idle"
    /\ UNCHANGED <<shared, driver, session, now, requests, call, exit, ops>>

\* Mutant of FinallyRequests: end() follows the yield without try/finally, so
\* it is skipped when the body leaves by an exception.
EndOnlyAfterReturn(reqs, how) ==
    IF how.kind = "raise" THEN reqs ELSE Append(reqs, EndRequest)

\* the requests posted once the body has left the `async with` block in way
\* `how`: the finally clause of AgentWarden.session() awaits session.end()
FinallyRequests(reqs, how) == Append(reqs, EndRequest)

\* end() called by the caller: post the end request, suspend on the reply
end ==
    /\ driver = "direct" /\ pc = "idle" /\ ops < MaxOps
    /\ requests' = Append(requests, EndRequest)
    /\ pc' = "end_wait"
    /\ ops' = ops + 1
    /\ UNCHANGED <<shared, driver, session, now, call, result, exit, outcome>>

\* the ways the body of the `async with` block can leave it: by running to its
\* end, or by letting the exception of its last Session operation propagate
BodyExits ==
    { Returned(None) } \cup (IF result.kind = "raise" THEN {result} ELSE {})

\* the body leaves the block; the finally clause runs end() up to its await
BodyExit(how) ==
    /\ driver = "cm" /\ pc = "idle"
    /\ exit' = how
    /\ requests' = FinallyRequests(requests, how)
    /\ pc' = "end_wait"
    /\ UNCHANGED <<shared, driver, session, now, call, result, outcome, ops>>

\* what leaves AgentWarden.session() when end() returned: the body's own
\* return value or exception
AfterEndOk(how) == how

\* what leaves AgentWarden.session() when end() raised `e` inside finally
AfterEndFailed(how, e) == Raised(e)

\* the end request is answered
EndResponds ==
    /\ pc = "end_wait"
    /\ result' = Returned(None)
    /\ IF driver = "cm"
       THEN /\ outcome' = AfterEndOk(exit)
            /\ pc' = "exited"
       ELSE /\ outcome' = outcome
            /\ pc' = "idle"
    /\ UNCHANGED <<shared, driver, session, now, requests, call, exit, ops>>

\* the end request fails in _post
EndFails ==
    /\ pc = "end_wait"
    /\ result' = Raised(TransportError(EndPath(session_id)))
    /\ IF driver = "cm"
       THEN /\ outcome' = AfterEndFailed(exit, TransportError(EndPath(session_id)))
            /\ pc' = "exited"
       ELSE /\ outcome' = outcome
            /\ pc' = "idle"
    /\ UNCHANGED <<shared, driver, session, now, requests, call, exit, ops>>


(***************************************************************************)
(* The governed action methods: tool, api_call, db_query, chat.            *)
(***************************************************************************)
\* Mutant of AdvanceCount: the counter is advanced twice per call.
AdvanceCountTwice(n) == n + 2

\* self._action_count += 1
AdvanceCount(n) == n + 1

\* _evaluate up to its await: advance the counter, compute the duration,
\* post the evaluation request built from the advanced counter
ActionCall(method, a, execute) ==
    /\ pc = "idle" /\ ops < MaxOps
    /\ _action_count' = AdvanceCount(_action_count)
    /\ requests' = Append(requests,
                          EvaluateRequest(EvaluateArgs(method, a), _action_count'))
    /\ call' = NewCall(method, a, execute)
    /\ pc' = "eval_wait"
    /\ ops' = ops + 1
    /\ UNCHANGED <<shared, driver, session_id, agent_id, agent_version, metadata, _cost,
                   _started_at, now, result, exit, outcome>>

\* Mutant of RequestsAfterFailure: the failed request is sent once more.
RetriedOnce(reqs) == Append(reqs, reqs[Len(reqs)])

\* the requests sent once _post has raised: raise_for_status() or the
\* connection error propagates out of _evaluate, nothing is sent again
RequestsAfterFailure(reqs) == reqs

\* the evaluation request fails in _post: the method raises, nothing else runs
EvalFails ==
    /\ pc = "eval_wait"
    /\ result' = Raised(TransportError(EvaluatePath))
    /\ call' = [call EXCEPT !.got = "transport_error", !.ret = result']
    /\ requests' = RequestsAfterFailure(requests)
    /\ pc' = "idle"
    /\ UNCHANGED <<shared, driver, session, now, exit, outcome, ops>>

\* how many times _run_callable invokes fn: once on each of its paths
\* (await fn() for a coroutine function, result = fn() otherwise)
Invocations(kind) == 1

\* Mutant of Suspends: the awaitable a plain function returned is handed
\* back without being awaited.
SuspendsOnCoroutineFunctionsOnly(kind) == kind = "coro"

\* whether _run_callable suspends after invoking fn: it awaits the coroutine
\* of a coroutine function and the awaitable a plain function returned
Suspends(kind) == kind \in {"coro", "sync_awaitable"}

\* Mutant of AwaitingWork: the coroutine is started but not awaited, and the
\* method goes on without its result.
DetachedWork == "idle"

\* where the flow is after _run_callable invoked a suspending unit of work:
\* `await fn()` / `await result` block the method until the work resolves
AwaitingWork == "executing"

\* Mutant of _run_callable: an exception of the work is caught and raised
\* again as a denial.
_run_callable_translating(o) ==
    IF o.kind = "raise"
    THEN [kind |-> "raise", value |-> None,
          exc |-> [type |-> "ActionDenied", policy_name |-> "", suggestions |-> <<>>,
                   args |-> <<"execution failed">>]]
    ELSE o

\* what _run_callable gives back for a unit of work that ended as `o`: the
\* value itself, or the work's exception propagating
_run_callable(o) == o

\* Mutant of MethodReturn: the work's result is awaited and then dropped.
MethodReturnDropsResult(execute, o) == Returned(None)

\* the tail of each public method once the verdict let it through:
\* `if execute: return await self._run_callable(execute)`, else `return None`
MethodReturn(execute, o) ==
    IF execute = None THEN Returned(None) ELSE _run_callable(o)

\* the evaluation response arrives: _handle_verdict, then the unit of work.
\* A plain function runs to its end here; a suspending one is awaited.
EvalResponds(resp) ==
    /\ pc = "eval_wait"
    /\ LET exc == _handle_verdict(resp)
           answered == [call EXCEPT !.got = "response", !.resp = resp]
           invoked == [answered EXCEPT !.execs = @ + Invocations(call.execute)]
       IN IF exc.type # "none" THEN
              /\ result' = Raised(exc)
              /\ call' = [answered EXCEPT !.ret = result']
              /\ pc' = "idle"
          ELSE IF call.execute = None THEN
              /\ result' = MethodReturn(None, NoResult)
              /\ call' = [answered EXCEPT !.ret = result']
              /\ pc' = "idle"
          ELSE IF Suspends(call.execute) THEN
              /\ result' = result
              /\ call' = invoked
              /\ pc' = AwaitingWork
          ELSE
              /\ \E o \in WorkOutcomes :
                    /\ result' = MethodReturn(call.execute, o)
                    /\ call' = [invoked EXCEPT !.work = o, !.ret = result']
              /\ pc' = "idle"
    /\ UNCHANGED <<shared, driver, session, now, requests, exit, outcome, ops>>

\* the awaited unit of work resolves, with a value or with its exception
WorkResolves(o) ==
    /\ pc = "executing"
    /\ result' = MethodReturn(call.execute, o)
    /\ call' = [call EXCEPT !.work = o, !.ret = result']
    /\ pc' = "idle"
    /\ UNCHANGED <<shared, driver, session, now, requests, exit, outcome, ops>>

(***************************************************************************)
(* Session.score and Session.trace_llm.                                    *)
(***************************************************************************)
score(a) ==
    /\ pc = "idle" /\ ops < MaxOps
    /\ requests' = Append(requests, ScoreRequest(a))
    /\ pc' = "score_wait"
    /\ ops' = ops + 1
    /\ UNCHANGED <<shared, driver, session, now, call, result, exit, outcome>>

ScoreResponds ==
    /\ pc = "score_wait"
    /\ result' = Returned(None)
    /\ pc' = "idle"
    /\ UNCHANGED <<shared, driver, session, now, requests, call, exit, outcome, ops>>

ScoreFails ==
    /\ pc = "score_wait"
    /\ result' = Raised(TransportError(ScorePath(session_id)))
    /\ pc' = "idle"
    /\ UNCHANGED <<shared, driver, session, now, requests, call, exit, outcome, ops>>

\* Mutant of CostAfterTrace: the usage found in the response is charged.
CostAfterTraceCharged(cost, has_usage) == IF has_usage THEN cost + 1 ELSE cost

\* self._cost once trace_llm has read the token counts: `_ = tokens_in,
\* tokens_out` keeps nothing
CostAfterTrace(cost, has_usage) == cost

\* trace_llm(response): reads response.usage when there is one, keeps nothing
trace_llm(has_usage) ==
    /\ pc = "idle" /\ ops < MaxOps
    /\ _cost' = CostAfterTrace(_cost, has_usage)
    /\ result' = Returned(None)
    /\ ops' = ops + 1
    /\ UNCHANGED <<shared, driver, session_id, agent_id, agent_version, metadata,
                   _action_count, _started_at, now, pc, requests, call, exit, outcome>>

\* the wall clock advances.  The session reads it only when start() or an
\* action method begins, and uses only its distance from _started_at, so the
\* model advances it between operations of a session that has a start time.
Tick ==
    /\ now < MaxClock
    /\ pc = "idle"
    /\ _started_at # Unset
    /\ now' = now + 1
    /\ UNCHANGED <<shared, driver, session, pc, requests, call, result, exit, outcome, ops>>

Next ==
    \/ start
    \/ StartResponds
    \/ StartFails
    \/ end
    \/ \E how \in BodyExits : BodyExit(how)
    \/ EndResponds
    \/ EndFails
    \/ \E m \in Methods : \E a \in CallerArgs(m), x \in ExecuteArgs : ActionCall(m, a, x)
    \/ EvalFails
    \/ \E r \in Responses : EvalResponds(r)
    \/ \E o \in WorkOutcomes : WorkResolves(o)
    \/ \E a \in ScoreCalls : score(a)
    \/ ScoreResponds
    \/ ScoreFails
    \/ \E u \in BOOLEAN : trace_llm(u)
    \/ Tick

Spec == Init /\ [][Next]_vars


(***************************************************************************)
(* Several Sessions on one client, each driven by its own task.  A task    *)
(* runs without interruption up to the await of _post, so the steps of a   *)
(* session up to the sending of a request are one action; the tasks        *)
(* interleave at the awaits.                                               *)
(***************************************************************************)
MaxCalls == 2

\* the variables of the single session, the clock apart
single == <<driver, session, pc, requests, call, result, exit, outcome, ops>>

\* _post called by session k: the request, with who sent it and when
Posted(k, r) == Append(wire, [by |-> k, at |-> now, path |-> r.path, body |-> r.body])

\* start() of session k
FleetStart(k) ==
    /\ fleet[k].pc = "new"
    /\ fleet' = [fleet EXCEPT ![k]._started_at = now, ![k].pc = "start_wait"]
    /\ wire' = Posted(k, [path |-> StartPath,
                          body |-> [session_id |-> fleet[k].session_id,
                                    agent_id |-> fleet[k].agent_id,
                                    agent_version |-> fleet[k].agent_version,
                                    metadata |-> fleet[k].metadata]])
    /\ UNCHANGED <<single, now, process, client>>

\* the registration is answered, or fails and the session is given up
FleetStartDone(k, ok) ==
    /\ fleet[k].pc = "start_wait"
    /\ fleet' = [fleet EXCEPT ![k].pc = IF ok THEN "idle" ELSE "ended"]
    /\ UNCHANGED <<single, now, process, client, wire>>

\* Mutant of Counted: the counter is an attribute of the class, one for all
\* sessions.
CountedOnClass(f, k) ==
    [j \in DOMAIN f |-> [f[j] EXCEPT !._action_count = AdvanceCount(@)]]

\* self._action_count += 1 on session k
Counted(f, k) == [f EXCEPT ![k]._action_count = AdvanceCount(@)]

\* the body _evaluate posts for session s
FleetEvaluateRequest(s, e) ==
    [path |-> EvaluatePath,
     body |-> [session_id |-> s.session_id, agent_id |-> s.agent_id,
               agent_version |-> s.agent_version,
               action |-> [type |-> e.action_type, name |-> e.name,
                           params_json |-> JsonDumps(e.params),
                           target |-> IF e.target = None THEN "" ELSE e.target],
               context |-> [session_cost |-> s._cost,
                            session_action_count |-> ContextCount(s._action_count),
                            session_duration_seconds |->
                                IF s._started_at # Unset THEN now - s._started_at ELSE 0],
               metadata |-> s.metadata]]

\* an action method of session k, up to the await in _evaluate
FleetCall(k, method, a) ==
    /\ fleet[k].pc = "idle"
    /\ fleet[k]._action_count < MaxCalls
    /\ LET counted == Counted(fleet, k)
       IN /\ fleet' = [counted EXCEPT ![k].pc = "eval_wait"]
          /\ wire' = Posted(k, FleetEvaluateRequest(counted[k], EvaluateArgs(method, a)))
    /\ UNCHANGED <<single, now, process, client>>

\* the evaluation of session k is answered or fails: the method returns or
\* raises to the task driving session k, which goes on with that session
FleetEvalDone(k) ==
    /\ fleet[k].pc = "eval_wait"
    /\ fleet' = [fleet EXCEPT ![k].pc = "idle"]
    /\ UNCHANGED <<single, now, process, client, wire>>

\* end() of session k
FleetEnd(k) ==
    /\ fleet[k].pc = "idle"
    /\ fleet' = [fleet EXCEPT ![k].pc = "end_wait"]
    /\ wire' = Posted(k, [path |-> EndPath(fleet[k].session_id),
                          body |-> [session_id |-> fleet[k].session_id]])
    /\ UNCHANGED <<single, now, process, client>>

\* the end request is answered or fails
FleetEndDone(k) ==
    /\ fleet[k].pc = "end_wait"
    /\ fleet' = [fleet EXCEPT ![k].pc = "ended"]
    /\ UNCHANGED <<single, now, process, client, wire>>

\* the wall clock advances while the tasks are suspended
FleetTick ==
    /\ now < MaxClock
    /\ now' = now + 1
    /\ UNCHANGED <<single, shared>>

\* the action method the task of each session calls
FleetMethod(k) == IF k = "s1" THEN "tool" ELSE "api_call"

InitMulti ==
    /\ Init
    /\ driver = "direct"

NextMulti ==
    \/ \E k \in Fleet : FleetStart(k)
    \/ \E k \in Fleet, ok \in BOOLEAN : FleetStartDone(k, ok)
    \/ \E k \in Fleet : \E a \in CallerArgs(FleetMethod(k)) : FleetCall(k, FleetMethod(k), a)
    \/ \E k \in Fleet : FleetEvalDone(k)
    \/ \E k \in Fleet : FleetEnd(k)
    \/ \E k \in Fleet : FleetEndDone(k)
    \/ FleetTick

SpecMulti == InitMulti /\ [][NextMulti]_vars


(***************************************************************************)
(* decorators.py: the default client of @governed.  get_default_client()   *)
(* has no await, so a task runs it in one piece; the tasks interleave at   *)
(* the awaits of the decorated call.                                       *)
(***************************************************************************)
\* Mutant of get_default_client: a client is constructed at every call.
get_default_client_unconditional(dc, n) ==
    [returned |-> DefaultClient(n + 1), dc |-> DefaultClient(n + 1), n |-> n + 1]

\* get_default_client(): construct the client if the global is None, return
\* the global.  Given the global and the number of clients constructed so
\* far, gives what is returned and the two afterwards.
get_default_client(dc, n) ==
    IF dc = NoClient
    THEN [returned |-> DefaultClient(n + 1), dc |-> DefaultClient(n + 1), n |-> n + 1]
    ELSE [returned |-> dc, dc |-> dc, n |-> n]

\* a task calls get_default_client() itself
DirectGet(t) ==
    /\ obtained[t].pc = "new"
    /\ LET g == get_default_client(_default_client, constructed)
       IN /\ _default_client' = g.dc
          /\ constructed' = g.n
          /\ obtained' = [obtained EXCEPT ![t] =
                 [by |-> "get_default_client", explicit |-> FALSE,
                  warden |-> g.returned, pc |-> "done"]]
    /\ UNCHANGED <<single, now, run, handler, client, fleet, wire>>

\* governed.wrapper up to its first await:
\* `warden = client or get_default_client()`, then warden.session(...)
GovernedEnter(t, explicit) ==
    /\ obtained[t].pc = "new"
    /\ LET g == IF explicit
                THEN [returned |-> ExplicitClient, dc |-> _default_client, n |-> constructed]
                ELSE get_default_client(_default_client, constructed)
       IN /\ _default_client' = g.dc
          /\ constructed' = g.n
          /\ obtained' = [obtained EXCEPT ![t] =
                 [by |-> "governed", explicit |-> explicit,
                  warden |-> g.returned, pc |-> "in_session"]]
    /\ UNCHANGED <<single, now, run, handler, client, fleet, wire>>

\* the decorated call of task t comes to its end
GovernedLeave(t) ==
    /\ obtained[t].pc = "in_session"
    /\ obtained' = [obtained EXCEPT ![t].pc = "done"]
    /\ UNCHANGED <<single, now, run, handler, client, fleet, wire, _default_client, constructed>>

InitDefault ==
    /\ Init
    /\ driver = "cm"

NextDefault ==
    \/ \E t \in Tasks : DirectGet(t)
    \/ \E t \in Tasks, explicit \in BOOLEAN : GovernedEnter(t, explicit)
    \/ \E t \in Tasks : GovernedLeave(t)

SpecDefault == InitDefault /\ [][NextDefault]_vars


(***************************************************************************)
(* integrations: GovernedRunner.run / run_streamed (openai_agents.py) and  *)
(* GovernedCrew.kickoff (crewai.py).  One flow of control: the session of  *)
(* AgentWarden.session(), inside it try / except / finally with the score, *)
(* then the end() of the context manager.                                  *)
(***************************************************************************)
Adapters == {"run", "run_streamed", "kickoff"}

\* the Session each adapter has AgentWarden.session() construct
AdapterConstruction(a) ==
    CASE a = "run" ->
           [sid |-> "ses_5e6f7a8b", agent_id |-> "openai-agent",
            metadata |-> <<<<"agent_name", "assistant">>>>]
      [] a = "run_streamed" ->
           [sid |-> "ses_5e6f7a8b", agent_id |-> "openai-agent",
            metadata |-> <<<<"agent_name", "assistant">>, <<"streaming", "true">>>>]
      [] a = "kickoff" ->
           [sid |-> "ses_5e6f7a8b", agent_id |-> "crewai-agent", metadata |-> EmptyDict]

\* an exception that is not an Exception: asyncio.CancelledError
Cancelled == [type |-> "CancelledError"]

\* the items the result of the framework's run can hold, per adapter:
\* run() traces tool calls and handoffs, kickoff() tool calls, run_streamed()
\* nothing
RunItems(a) ==
    CASE a = "run" -> {<<>>, <<"tool">>, <<"handoff">>, <<"tool", "handoff">>}
      [] a = "run_streamed" -> {<<>>}
      [] a = "kickoff" -> {<<>>, <<"tool">>}
      [] OTHER -> {}

\* the Session method and arguments with which an item is traced
TraceMethod(item) == IF item = "tool" THEN "tool" ELSE "api_call"
TraceArgs(a, item) ==
    IF item = "tool"
    THEN [name |-> "search", params |-> EmptyDict,
          target |-> IF a = "run" THEN "agent:assistant" ELSE None]
    ELSE [name |-> "handoff:billing",
          params |-> <<<<"from_agent", JStr("assistant")>>, <<"to_agent", JStr("billing")>>>>,
          target |-> "agent:billing"]

\* the except clauses: ActionDenied sets error_occurred; any other Exception
\* sets it and the message; what is not an Exception passes them by
Caught(how) ==
    IF how.kind # "raise" \/ how.exc.type = "CancelledError"
    THEN [error_occurred |-> FALSE, error_message |-> ""]
    ELSE IF how.exc.type = "ActionDenied"
    THEN [error_occurred |-> TRUE, error_message |-> ""]
    ELSE [error_occurred |-> TRUE, error_message |-> how.exc.type]

\* the arguments of session.score() in the finally clause
AdapterScoreCall(r) ==
    [task_completed |-> ~r.error_occurred,
     quality |-> IF r.adapter = "run_streamed" THEN None
                 ELSE IF r.error_occurred THEN "0.0" ELSE "1.0",
     metadata |-> <<<<"latency_ms", JStr("12.5")>>>>
                  \o (IF r.adapter = "kickoff" THEN <<>>
                      ELSE <<<<"agent_name", JStr("assistant")>>>>)
                  \o (IF r.adapter = "run_streamed" THEN <<<<"streaming", JStr("true")>>>>
                      ELSE <<>>)
                  \o (IF r.error_message # "" THEN <<<<"error", JStr(r.error_message)>>>>
                      ELSE <<>>)]

\* the adapter opens the session: AgentWarden.session() constructs it and
\* awaits start()
AdapterStart(a) ==
    /\ pc = "new" /\ run.adapter = "none"
    /\ run' = [run EXCEPT !.adapter = a]
    /\ session_id' = AdapterConstruction(a).sid
    /\ agent_id' = AdapterConstruction(a).agent_id
    /\ agent_version' = "v1"
    /\ metadata' = AdapterConstruction(a).metadata
    /\ _started_at' = now
    /\ requests' = Append(requests, StartRequest')
    /\ pc' = "start_wait"
    /\ UNCHANGED <<driver, _cost, _action_count, now, call, result, exit, outcome, ops,
                   client, fleet, wire, _default_client, constructed, obtained, handler>>

\* Mutant of FinallyScore: the score is sent at the end of the try block
\* instead of in a finally clause, so only when the run returned.
ScoreOnReturnOnly(reqs, r) ==
    IF r.leaving.kind = "raise" THEN reqs
    ELSE Append(reqs, ScoreRequest(AdapterScoreCall(r)))

\* the requests once the finally clause has called session.score(), on
\* every way of leaving the try block
FinallyScore(reqs, r) == Append(reqs, ScoreRequest(AdapterScoreCall(r)))

\* the try block is left in way `how`: the except clause that matches sets
\* the locals, the finally clause calls session.score() up to its await
LeaveTry(r, how) ==
    /\ run' = [r EXCEPT !.error_occurred = Caught(how).error_occurred,
                        !.error_message = Caught(how).error_message,
                        !.leaving = how,
                        !.scores = @ + 1]
    /\ requests' = FinallyScore(requests, run')
    /\ pc' = "score_wait"

\* an action method is called on the session, up to the await in _evaluate
AdapterCall(method, a) ==
    /\ _action_count' = AdvanceCount(_action_count)
    /\ requests' = Append(requests,
                          EvaluateRequest(EvaluateArgs(method, a), _action_count'))
    /\ call' = NewCall(method, a, None)

\* the session is yielded: run() and run_streamed() call session.chat() for
\* the model of the agent, kickoff() starts the crew
AdapterStartResponds ==
    /\ pc = "start_wait" /\ run.adapter # "none"
    /\ result' = Returned(None)
    /\ IF run.adapter = "kickoff"
       THEN /\ run' = [run EXCEPT !.invoked = @ + 1]
            /\ pc' = "running"
            /\ UNCHANGED <<_action_count, requests, call>>
       ELSE /\ \E a \in ChatCalls : AdapterCall("chat", a)
            /\ pc' = "eval_wait"
            /\ run' = run
    /\ UNCHANGED <<driver, session_id, agent_id, agent_version, metadata, _cost,
                   _started_at, now, exit, outcome, ops,
                   client, fleet, wire, _default_client, constructed, obtained, handler>>

\* the chat evaluation is answered: _handle_verdict raises into the except
\* clauses, or the framework's runner is invoked
AdapterChatResponds(resp) ==
    /\ pc = "eval_wait" /\ run.adapter # "none"
    /\ LET exc == _handle_verdict(resp)
           answered == [call EXCEPT !.got = "response", !.resp = resp]
       IN IF exc.type # "none"
          THEN /\ result' = Raised(exc)
               /\ call' = [answered EXCEPT !.ret = result']
               /\ LeaveTry([run EXCEPT !.chat = call'], Raised(exc))
          ELSE /\ result' = Returned(None)
               /\ call' = [answered EXCEPT !.ret = result']
               /\ run' = [run EXCEPT !.chat = call', !.invoked = @ + 1]
               /\ pc' = "running"
               /\ requests' = requests
    /\ UNCHANGED <<driver, session, now, exit, outcome, ops,
                   client, fleet, wire, _default_client, constructed, obtained, handler>>

\* the chat evaluation fails in _post
AdapterChatFails ==
    /\ pc = "eval_wait" /\ run.adapter # "none"
    /\ result' = Raised(TransportError(EvaluatePath))
    /\ call' = [call EXCEPT !.got = "transport_error", !.ret = result']
    /\ LeaveTry([run EXCEPT !.chat = call'], result')
    /\ UNCHANGED <<driver, session, now, exit, outcome, ops,
                   client, fleet, wire, _default_client, constructed, obtained, handler>>

\* the framework's run raises
RunnerRaises(e) ==
    /\ pc = "running"
    /\ LeaveTry(run, Raised(e))
    /\ UNCHANGED <<driver, session, now, call, result, exit, outcome, ops,
                   client, fleet, wire, _default_client, constructed, obtained, handler>>

\* the framework's run returns its result: the adapter traces its first
\* item, or returns the result when there is none
RunnerReturns(items) ==
    /\ pc = "running"
    /\ IF items = <<>>
       THEN /\ LeaveTry(run, Returned("run_result"))
            /\ UNCHANGED <<_action_count, call>>
       ELSE /\ AdapterCall(TraceMethod(items[1]), TraceArgs(run.adapter, items[1]))
            /\ run' = [run EXCEPT !.items = items]
            /\ pc' = "trace_wait"
    /\ UNCHANGED <<driver, session_id, agent_id, agent_version, metadata, _cost,
                   _started_at, now, result, exit, outcome, ops,
                   client, fleet, wire, _default_client, constructed, obtained, handler>>

\* the evaluation of a traced item has ended as `ret`; an exception is
\* dropped by `except (ActionDenied, Exception): pass`.  The next item is
\* traced, or the result is returned
TraceDone(ret, c) ==
    /\ result' = ret
    /\ LET r == [run EXCEPT !.items = Tail(@),
                            !.trace_denied = @ \/ (ret.kind = "raise"
                                                   /\ ret.exc.type = "ActionDenied")]
       IN IF r.items = <<>>
          THEN /\ LeaveTry(r, Returned("run_result"))
               /\ call' = c
               /\ UNCHANGED _action_count
          ELSE /\ AdapterCall(TraceMethod(r.items[1]), TraceArgs(r.adapter, r.items[1]))
               /\ run' = r
               /\ pc' = "trace_wait"
    /\ UNCHANGED <<driver, session_id, agent_id, agent_version, metadata, _cost,
                   _started_at, now, exit, outcome, ops,
                   client, fleet, wire, _default_client, constructed, obtained, handler>>

\* the evaluation of a traced item is answered
TraceResponds(resp) ==
    /\ pc = "trace_wait"
    /\ LET exc == _handle_verdict(resp)
           ret == IF exc.type # "none" THEN Raised(exc) ELSE Returned(None)
       IN TraceDone(ret, [call EXCEPT !.got = "response", !.resp = resp, !.ret = ret])

\* the evaluation of a traced item fails in _post
TraceFails ==
    /\ pc = "trace_wait"
    /\ TraceDone(Raised(TransportError(EvaluatePath)),
                 [call EXCEPT !.got = "transport_error",
                              !.ret = Raised(TransportError(EvaluatePath))])

\* Mutant of AfterScore: a failure of score() leaves the finally clause.
AfterScoreUnguarded(leaving, scored) ==
    IF scored.kind = "raise" THEN scored ELSE leaving

\* what leaves the try statement once `try: await session.score(...) except
\* Exception: pass` has ended as `scored`: what was leaving it before
AfterScore(leaving, scored) == leaving

\* score() has ended as `scored`; the body of the `async with` block is left
\* and AgentWarden.session() calls end()
ScoreDone(scored) ==
    /\ pc = "score_wait" /\ run.adapter # "none"
    /\ result' = scored
    /\ exit' = AfterScore(run.leaving, scored)
    /\ requests' = FinallyRequests(requests, exit')
    /\ pc' = "end_wait"
    /\ UNCHANGED <<driver, session, now, call, outcome, ops, run,
                   client, fleet, wire, _default_client, constructed, obtained, handler>>

\* how score() can end: answered, or failed in _post
ScoreOutcomes == {Returned(None), Raised(TransportError(ScorePath(session_id)))}

InitAdapter ==
    /\ Init
    /\ driver = "cm"

NextAdapter ==
    \/ \E a \in Adapters : AdapterStart(a)
    \/ StartFails
    \/ AdapterStartResponds
    \/ \E r \in Responses : AdapterChatResponds(r)
    \/ AdapterChatFails
    \/ \E e \in {WorkError, Cancelled} : RunnerRaises(e)
    \/ \E items \in RunItems(run.adapter) : RunnerReturns(items)
    \/ \E r \in Responses : TraceResponds(r)
    \/ TraceFails
    \/ \E scored \in ScoreOutcomes : ScoreDone(scored)
    \/ EndResponds
    \/ EndFails

SpecAdapter == InitAdapter /\ [][NextAdapter]_vars


(***************************************************************************)
(* integrations/langchain.py: AgentWardenCallbackHandler.  The framework   *)
(* delivers events; each callback is a coroutine that runs up to its next  *)
(* await, and callbacks of parallel branches of a chain interleave there.  *)
(***************************************************************************)
MaxEvents == 4

\* the callbacks that touch the session (on_llm_start, on_chat_model_start,
\* on_llm_error, on_tool_start and on_tool_error only keep timings)
Callbacks ==
    {"on_chain_start", "on_chain_end", "on_chain_error", "on_tool_end",
     "on_agent_action", "on_agent_finish", "on_llm_end"}

\* f"ses_{uuid.uuid4().hex[:8]}" of the n-th Session: a fresh token each
SessionId(n) == "ses_" \o ToString(n)

\* a Session as the handler constructs it, with how its start() went
NewSession(n) ==
    [session_id |-> SessionId(n), agent_id |-> "langchain-agent", agent_version |-> "v1",
     _action_count |-> 0, start |-> "pending"]

\* the request a Session method posts, with how the start() of that session
\* stood when it was sent
HandlerRequest(h, n, path, body) ==
    [path |-> path, body |-> body, start |-> h.sessions[n].start]

\* the callback in slot c returns
Returns(h, c) == [h EXCEPT !.slots[c] = NoCallback]

\* an exception leaves the callback in slot c, to the framework
RaisesToFramework(h, c, exc) ==
    [h EXCEPT !.slots[c] = NoCallback,
              !.raised = @ \cup {[event |-> h.slots[c].event, exc |-> exc]}]

\* the callback in slot c posts a request and suspends
Posts(h, c, n, at, path, body) ==
    [h EXCEPT !.sent = Append(@, HandlerRequest(h, n, path, body)),
              !.slots[c].at = at,
              !.slots[c].session = n]

\* the callback in slot c goes on with what _ensure_session() returned
\* (session n, 0 for None): on_chain_start returns; on_llm_end calls
\* trace_llm; on_tool_end and on_agent_action call session.tool() and
\* on_agent_finish session.score(), both inside try / except Exception: pass
WithSession(h, c, n) ==
    LET e == h.slots[c].event IN
    IF e = "on_chain_start" THEN Returns(h, c)
    ELSE IF e = "on_llm_end"
    THEN IF n = 0 THEN RaisesToFramework(h, c, "AttributeError") ELSE Returns(h, c)
    ELSE IF n = 0 THEN Returns(h, c)
    ELSE IF e = "on_agent_finish"
    THEN Posts(h, c, n, "score_wait", ScorePath(SessionId(n)),
               [session_id |-> SessionId(n), task_completed |-> TRUE])
    ELSE LET counted == [h EXCEPT !.sessions[n]._action_count = AdvanceCount(@)]
         IN Posts(counted, c, n, "eval_wait", EvaluatePath,
                  [session_id |-> SessionId(n),
                   action |-> [type |-> "tool.call"],
                   context |-> [session_action_count |->
                                    ContextCount(counted.sessions[n]._action_count)]])

\* _ensure_session() up to its await: with no session, construct one, keep
\* it in self._session and call start(); with one, return it at once
EnsureSession(h, c) ==
    IF h._session = 0
    THEN LET n == Len(h.sessions) + 1
             made == [h EXCEPT !._session = n, !.sessions = Append(@, NewSession(n))]
         IN Posts(made, c, n, "start_wait", StartPath,
                  [session_id |-> SessionId(n), agent_id |-> "langchain-agent",
                   agent_version |-> "v1"])
    ELSE WithSession(h, c, h._session)

\* _end_session() up to its await: with a session, call end() on it
EndSession(h, c) ==
    IF h._session # 0
    THEN Posts(h, c, h._session, "end_wait", EndPath(SessionId(h._session)),
               [session_id |-> SessionId(h._session)])
    ELSE Returns(h, c)

\* the free slot a new callback takes
FreeSlot(c) ==
    /\ handler.slots[c].event = "none"
    /\ \A d \in Slots : d < c => handler.slots[d].event # "none"

\* the framework delivers event e: the callback runs up to its first await.
\* A chain end or chain error is delivered for a chain that is open.
Deliver(c, e) ==
    /\ FreeSlot(c)
    /\ handler.events < MaxEvents
    /\ e \in {"on_chain_end", "on_chain_error"} => handler.open > 0
    /\ LET h == [handler EXCEPT
                    !.events = @ + 1,
                    !.open = IF e = "on_chain_start" THEN @ + 1
                             ELSE IF e \in {"on_chain_end", "on_chain_error"} THEN @ - 1
                             ELSE @,
                    !.slots[c] = [event |-> e, at |-> "begun", session |-> 0]]
       IN handler' = IF e \in {"on_chain_end", "on_chain_error"}
                     THEN EndSession(h, c)
                     ELSE EnsureSession(h, c)
    /\ UNCHANGED <<single, now, client, fleet, wire, _default_client, constructed,
                   obtained, run>>

\* start() is answered: _ensure_session() returns self._session as it is now
HandlerStartResponds(c) ==
    /\ handler.slots[c].at = "start_wait"
    /\ LET h == [handler EXCEPT !.sessions[handler.slots[c].session].start = "ok"]
       IN handler' = WithSession(h, c, h._session)
    /\ UNCHANGED <<single, now, client, fleet, wire, _default_client, constructed,
                   obtained, run>>

\* start() fails in _post: the exception leaves _ensure_session(), which no
\* callback calls inside a try
HandlerStartFails(c) ==
    /\ handler.slots[c].at = "start_wait"
    /\ LET h == [handler EXCEPT !.sessions[handler.slots[c].session].start = "failed"]
       IN handler' = RaisesToFramework(h, c, "TransportError")
    /\ UNCHANGED <<single, now, client, fleet, wire, _default_client, constructed,
                   obtained, run>>

\* how session.tool() or session.score() ends: it returns, or raises
\* ActionDenied, ActionPendingApproval or the transport error
MethodEnds == {"return", "ActionDenied", "ActionPendingApproval", "TransportError"}

\* session.tool() or session.score() has ended; `except Exception: pass`
HandlerCallDone(c, how) ==
    /\ handler.slots[c].at \in {"eval_wait", "score_wait"}
    /\ handler.slots[c].at = "score_wait" => how \in {"return", "TransportError"}
    /\ handler' = Returns(handler, c)
    /\ UNCHANGED <<single, now, client, fleet, wire, _default_client, constructed,
                   obtained, run>>

\* end() has returned or raised (`except Exception: pass`); then
\* self._session = None
HandlerEndDone(c, ok) ==
    /\ handler.slots[c].at = "end_wait"
    /\ handler' = Returns([handler EXCEPT !._session = 0], c)
    /\ UNCHANGED <<single, now, client, fleet, wire, _default_client, constructed,
                   obtained, run>>

InitHandler ==
    /\ Init
    /\ driver = "cm"

NextHandler ==
    \/ \E c \in Slots, e \in Callbacks : Deliver(c, e)
    \/ \E c \in Slots : HandlerStartResponds(c)
    \/ \E c \in Slots : HandlerStartFails(c)
    \/ \E c \in Slots, how \in MethodEnds : HandlerCallDone(c, how)
    \/ \E c \in Slots, ok \in BOOLEAN : HandlerEndDone(c, ok)

SpecHandler == InitHandler /\ [][NextHandler]_vars


(***************************************************************************)
(* Observations used by the properties.                                    *)
(***************************************************************************)
IsStart(r) == r.path = StartPath
IsEvaluate(r) == r.path = EvaluatePath
IsEnd(r) == r.path = EndPath(r.body.session_id)

StartRequests == SelectSeq(requests, IsStart)
EvaluateRequests == SelectSeq(requests, IsEvaluate)
EndRequests == SelectSeq(requests, IsEnd)

\* the verdict field of the response to the current action call
GotVerdict(values) ==
    /\ call.got = "response"
    /\ "verdict" \in DOMAIN call.resp
    /\ call.resp["verdict"] \in values

\* the response to the current action call has no recognised verdict
GotNoKnownVerdict ==
    /\ call.got = "response"
    /\ \/ "verdict" \notin DOMAIN call.resp
       \/ call.resp["verdict"] \notin {"allow", "deny", "approve", "terminate"}

GovernanceSignals == {"ActionDenied", "ActionPendingApproval"}

(***************************************************************************)
(* Properties.                                                             *)
(***************************************************************************)

\* C1: in every action call, the unit of work has been invoked only if that
\* call's evaluation request came back with a response, and the response is
\* not a deny, terminate or approve verdict; it is never invoked while the
\* request is in flight, after a transport failure or after such a verdict.
WorkOnlyAfterAllow ==
    call.execs > 0 =>
        /\ call.got = "response"
        /\ ~GotVerdict({"deny", "terminate", "approve"})

\* C1 witness: a unit of work that ran after its call's request was allowed
WorkRanAfterAllow ==
    /\ call.execs = 1
    /\ GotVerdict({"allow"})
    /\ Len(EvaluateRequests) = 2

\* C2: a completed action call whose response said "allow" has invoked the
\* unit of work exactly once and given its caller what the work produced,
\* unchanged; without a unit of work it has invoked nothing and returned
\* None.  No call ever invokes the work more than once.
AllowRunsWorkOnce ==
    /\ call.execs <= 1
    /\ (call.ret.kind # "none" /\ GotVerdict({"allow"})) =>
          IF call.execute = None
          THEN call.execs = 0 /\ call.ret = Returned(None)
          ELSE call.execs = 1 /\ call.ret = call.work

\* C2 witness: an allowed chat call returned the value of its awaited work
AllowedChatReturnedResult ==
    /\ call.method = "chat"
    /\ GotVerdict({"allow"})
    /\ call.execute = "coro"
    /\ call.ret = Returned("result")

ApproveCarriesResponse ==
    GotVerdict({"approve"}) =>
        /\ call.ret.kind = "raise"
        /\ call.ret.exc.type = "ActionPendingApproval"
        /\ call.execs = 0
        /\ "approval_id" \in DOMAIN call.resp =>
               call.ret.exc.approval_id = call.resp["approval_id"]
        /\ "policy_name" \in DOMAIN call.resp =>
               call.ret.exc.policy_name = call.resp["policy_name"]
        /\ "timeout_seconds" \in DOMAIN call.resp =>
               call.ret.exc.timeout_seconds = call.resp["timeout_seconds"]

\* C4 witness: a call with a unit of work is pending approval "apr_42"
PendingApprovalRaised ==
    /\ GotVerdict({"approve"})
    /\ call.execute # None
    /\ call.ret.exc.type = "ActionPendingApproval"
    /\ call.ret.exc.approval_id = "apr_42"
    /\ call.ret.exc.timeout_seconds = 300

\* C5: fail-open.  When the response has no verdict field, or a verdict
\* other than allow, deny, approve and terminate, the call raises no
\* governance signal and a supplied unit of work is invoked.
FailOpen ==
    GotNoKnownVerdict =>
        /\ call.ret.exc.type \notin GovernanceSignals
        /\ call.execute # None => call.execs = 1

\* C5 witness: the work ran to its end after a response without a verdict
RanWithoutVerdict ==
    /\ call.got = "response"
    /\ "verdict" \notin DOMAIN call.resp
    /\ call.execs = 1
    /\ call.ret = Returned("result")

ActionCountIsCallsMade ==
    _action_count = Len(EvaluateRequests)

\* C7 witness: two action calls were made and the second failed at the
\* transport
CountedTwoFailedCalls ==
    /\ _action_count = 2
    /\ call.got = "transport_error"
    /\ pc = "idle"

\* C8: under AgentWarden.session() no end request is sent while the body is
\* running, and exactly one, for the session's own session_id, once the body
\* has left the block, whether it returned or raised.
OneEndRequest ==
    driver = "cm" =>
        /\ Len(EndRequests) = IF exit.kind = "none" THEN 0 ELSE 1
        /\ \A i \in 1..Len(EndRequests) : EndRequests[i] = EndRequest

\* C8 witness: the body left by a denial and the block has been left
EndedAfterDenial ==
    /\ driver = "cm"
    /\ pc = "exited"
    /\ exit.exc.type = "ActionDenied"
    /\ Len(EndRequests) = 1

\* C9: when the body of the block leaves by an exception, that exception is
\* what the caller of the block receives, also when the end request failed.
ActionExceptionSurvivesEnd ==
    (driver = "cm" /\ pc = "exited" /\ exit.kind = "raise") => outcome = exit

\* C10: at most one registration request is ever sent for the session.
SingleRegistration ==
    Len(StartRequests) <= 1

\* C11 as claimed: on a session whose start() was never called an action
\* call sends no evaluation request and does not invoke the unit of work.
UnstartedCallIsRejected ==
    Len(StartRequests) = 0 =>
        /\ Len(EvaluateRequests) = 0
        /\ call.execs = 0

\* C11 as amended: on a session whose start() was never called an action
\* call is not rejected; its evaluation request is sent with
\* session_duration_seconds = 0 and the verdict gates the work as usual.
UnstartedCallEvaluatedAtZero ==
    Len(StartRequests) = 0 =>
        \A i \in 1..Len(EvaluateRequests) :
            EvaluateRequests[i].body.context.session_duration_seconds = 0

\* C11 witness: an unstarted session evaluated an action and ran its work
UnstartedCallRanWork ==
    /\ Len(StartRequests) = 0
    /\ _started_at = Unset
    /\ Len(EvaluateRequests) = 1
    /\ call.execs = 1
    /\ call.ret = Returned("result")

\* C12: requests are only ever appended to those already sent, and an
\* evaluation request is sent only when the flow is between operations,
\* with the previous action call completed (its response handled and its
\* work finished or failed); it carries the count of the calls made so far
\* on the session and the time elapsed since the session's start.
RequestsFollowCallOrder ==
    [][ /\ Len(requests') >= Len(requests)
        /\ SubSeq(requests', 1, Len(requests)) = requests
        /\ Len(EvaluateRequests') > Len(EvaluateRequests) =>
              /\ pc = "idle"
              /\ call.method # "none" => call.ret.kind # "none"
              /\ Len(requests') = Len(requests) + 1
              /\ LET c == requests'[Len(requests')].body.context IN
                    /\ c.session_action_count = Len(EvaluateRequests) + 1
                    /\ c.session_duration_seconds =
                          (IF _started_at = Unset THEN 0 ELSE now - _started_at)
      ]_vars

\* C12 witness: a second evaluation request went out a second after the
\* session's start, the first call having completed
SecondCallAfterFirstCompleted ==
    /\ Len(EvaluateRequests) = 2
    /\ pc = "eval_wait"
    /\ EvaluateRequests[1].body.context.session_duration_seconds = 0
    /\ EvaluateRequests[2].body.context.session_duration_seconds = 1

\* C13: when the unit of work of an action call raised, the method raises
\* that very exception to its caller, and the work was invoked once.
WorkExceptionPropagates ==
    call.work.kind = "raise" =>
        /\ call.ret.kind = "raise"
        /\ call.ret.exc = call.work.exc
        /\ call.execs = 1

\* C13 witness: an awaited unit of work raised after an allow verdict
AllowedWorkRaised ==
    /\ GotVerdict({"allow"})
    /\ call.execute = "sync_awaitable"
    /\ call.work.exc = WorkError
    /\ call.ret.exc.type = "WorkError"

\* C14: once the `async with` block that @governed wraps around the
\* function has been left, the session's requests begin with its one start
\* request and end with its one end request, and the caller receives what
\* the function returned or raised.
GovernedDeliversOriginal ==
    (driver = "cm" /\ pc = "exited" /\ exit.kind # "none") =>
        /\ Len(StartRequests) = 1 /\ IsStart(requests[1])
        /\ Len(EndRequests) = 1 /\ IsEnd(requests[Len(requests)])
        /\ outcome = exit

\* the kind of failure a caller can tell apart by the exception's class
FailureKind(o) ==
    IF o.kind # "raise" THEN "none"
    ELSE IF o.exc.type = "ActionDenied" THEN "denied"
    ELSE IF o.exc.type = "ActionPendingApproval" THEN "pending"
    ELSE "other"

\* C15: a deny or terminate verdict leaves the action method as a denial, an
\* approve verdict as a pending approval, a transport failure as neither;
\* and the failure the block was left with reaches the caller of
\* AgentWarden.session() as a failure of the same kind.
FailureKindReachesCaller ==
    /\ GotVerdict({"deny", "terminate"}) => FailureKind(call.ret) = "denied"
    /\ GotVerdict({"approve"}) => FailureKind(call.ret) = "pending"
    /\ call.got = "transport_error" => FailureKind(call.ret) = "other"
    /\ (driver = "cm" /\ pc = "exited" /\ exit.kind = "raise") =>
           FailureKind(outcome) = FailureKind(exit)

\* C16: a step sends an evaluation request exactly when it is the start of
\* an action call, and then it sends one; the step that receives a transport
\* failure or an approve verdict sends nothing and ends the call at once,
\* with the transport error or with ActionPendingApproval.
OneEvaluationPerCall ==
    [][ /\ Len(EvaluateRequests') - Len(EvaluateRequests) =
               (IF pc = "idle" /\ pc' = "eval_wait" THEN 1 ELSE 0)
        /\ (pc = "eval_wait" /\ call'.got = "transport_error") =>
               /\ requests' = requests
               /\ pc' = "idle"
               /\ call'.ret.exc.type = "TransportError"
        /\ (pc = "eval_wait" /\ GotVerdict({"approve"})') =>
               /\ requests' = requests
               /\ pc' = "idle"
               /\ call'.ret.exc.type = "ActionPendingApproval"
      ]_vars

\* the evaluation request failed, the method has raised, one request was sent
FailedCallSentOneRequest ==
    /\ pc = "idle"
    /\ call.got = "transport_error"
    /\ call.ret.exc.type = "TransportError"
    /\ Len(EvaluateRequests) = 1

\* C17: the action in the evaluation request of each method carries the
\* method's type, the name and target the caller gave (db.query and
\* llm.chat.<model> for db_query and chat, "" for an absent target) and the
\* JSON text of the params.
ActionAsSubmitted ==
    pc = "eval_wait" =>
        LET act == requests[Len(requests)].body.action
            a == call.args
            sent(t) == IF t = None THEN "" ELSE t
        IN /\ call.method = "tool" =>
                 act = [type |-> "tool.call", name |-> a.name,
                        params_json |-> JsonDumps(a.params), target |-> sent(a.target)]
           /\ call.method = "api_call" =>
                 /\ act = [type |-> "api.request", name |-> a.name,
                           params_json |-> JsonDumps(a.params), target |-> sent(a.target)]
                 /\ a.name = "github.merge_pr" =>
                       /\ act.params_json = "{\"pr\": 42}"
                       /\ act.target = "org/repo"
           /\ call.method = "db_query" =>
                 act = [type |-> "db.query", name |-> "db.query",
                        params_json |-> "{\"query\": \"" \o a.query \o "\"}",
                        target |-> sent(a.target)]
           /\ call.method = "chat" =>
                 act = [type |-> "llm.chat", name |-> "llm.chat." \o a.model,
                        params_json |-> "{\"model\": \"" \o a.model \o "\"}",
                        target |-> ""]

\* chat("gpt-4o") has sent its evaluation request
ChatActionSubmitted ==
    /\ pc = "eval_wait"
    /\ call.method = "chat"
    /\ requests[Len(requests)].body.action.name = "llm.chat.gpt-4o"
    /\ requests[Len(requests)].body.action.params_json = "{\"model\": \"gpt-4o\"}"

IsScore(r) == r.path = ScorePath(r.body.session_id)

\* the metadata the session was created with (`metadata or {}`)
GivenMetadata ==
    LET a == Construction(driver) IN IF a.given THEN a.metadata ELSE EmptyDict

\* C18 as claimed: every evaluation request and every score request of the
\* session carries the metadata the session was created with.
MetadataOnEvaluateAndScore ==
    \A i \in 1..Len(requests) :
        (IsEvaluate(requests[i]) \/ IsScore(requests[i])) =>
            /\ "metadata" \in DOMAIN requests[i].body
            /\ requests[i].body.metadata = GivenMetadata

\* C18 as amended: every evaluation request of the session carries the
\* metadata the session was created with; a score request carries the
\* session id, task_completed, quality and the metrics, and no metadata.
MetadataOnEvaluateOnly ==
    /\ metadata = GivenMetadata
    /\ \A i \in 1..Len(requests) :
          /\ IsEvaluate(requests[i]) =>
                requests[i].body.metadata = GivenMetadata
          /\ IsScore(requests[i]) =>
                DOMAIN requests[i].body =
                    {"session_id", "task_completed", "quality", "metrics"}

\* a session created with metadata {env: prod} has sent an evaluation
\* request and then a score request
EvaluatedThenScored ==
    /\ Len(requests) = 2
    /\ IsEvaluate(requests[1])
    /\ requests[1].body.metadata = <<<<"env", "prod">>>>
    /\ IsScore(requests[2])

\* C19: session_id, agent_id and agent_version are at all times what the
\* session was constructed with, and every request sent (start, evaluate,
\* score, end) carries that session_id, in its body and, for score and end,
\* in its path.
IdentityNeverChanges ==
    LET a == Construction(driver) IN
        /\ session_id = a.sid
        /\ agent_id = a.agent_id
        /\ agent_version = (IF a.agent_version = None THEN "v1" ELSE a.agent_version)
        /\ \A i \in 1..Len(requests) :
              /\ requests[i].body.session_id = a.sid
              /\ requests[i].path \in {StartPath, EvaluatePath,
                                       EndPath(a.sid), ScorePath(a.sid)}

\* one session has sent a request of each kind: start, evaluate, score, end
SentEveryKindOfRequest ==
    /\ Len(requests) = 4
    /\ IsStart(requests[1])
    /\ IsEvaluate(requests[2])
    /\ IsScore(requests[3])
    /\ IsEnd(requests[4])
    /\ requests[4].body.session_id = "ses_1a2b3c4d"

\* the evaluation requests session k has sent among the first n on the wire
EvaluationsBy(k, n) ==
    Cardinality({m \in 1..n : wire[m].by = k /\ IsEvaluate(wire[m])})

\* C20: with several sessions interleaved on one client, each session's
\* _action_count is the number of action calls made on that session, each
\* request carries the session_id of the session that sent it, each
\* evaluation request carries that session's identity, metadata, cost, count
\* and duration, and the client is as it was constructed.
SessionsDoNotInterfere ==
    /\ client = ClientInit
    /\ \A k \in Fleet : fleet[k]._action_count = EvaluationsBy(k, Len(wire))
    /\ \A n \in 1..Len(wire) :
          LET r == wire[n]
              s == fleet[r.by]
          IN /\ r.body.session_id = s.session_id
             /\ IsEvaluate(r) =>
                   /\ r.body.agent_id = s.agent_id
                   /\ r.body.agent_version = s.agent_version
                   /\ r.body.metadata = s.metadata
                   /\ r.body.context.session_cost = s._cost
                   /\ r.body.context.session_action_count = EvaluationsBy(r.by, n)
                   /\ r.body.context.session_duration_seconds = r.at - s._started_at

\* both sessions are awaiting an evaluation at once, one in its second
\* action call and the other in its first
TwoSessionsEvaluating ==
    /\ fleet["s1"].pc = "eval_wait" /\ fleet["s1"]._action_count = 2
    /\ fleet["s2"].pc = "eval_wait" /\ fleet["s2"]._action_count = 1

\* C21: the step that begins score() appends one request to the session's
\* score endpoint with session_id, task_completed, quality and metrics, and
\* the step that ends it sends nothing; neither step changes the session's
\* fields or the record of the last action call, and score() ends by
\* returning or with the transport error, never with a governance signal.
ScoreGatesNothing ==
    [][ /\ (pc = "idle" /\ pc' = "score_wait") =>
               /\ Len(requests') = Len(requests) + 1
               /\ SubSeq(requests', 1, Len(requests)) = requests
               /\ LET r == requests'[Len(requests')]
                  IN /\ r.path = ScorePath(session_id)
                     /\ DOMAIN r.body =
                            {"session_id", "task_completed", "quality", "metrics"}
                     /\ r.body.session_id = session_id
               /\ session' = session
               /\ call' = call
        /\ pc = "score_wait" =>
               /\ requests' = requests
               /\ session' = session
               /\ call' = call
               /\ pc' = "idle"
               /\ result'.exc.type \in {"none", "TransportError"}
      ]_vars

\* after one action call, score() was called and has returned
ScoredAfterOneCall ==
    /\ pc = "idle"
    /\ Len(requests) > 0
    /\ IsScore(requests[Len(requests)])
    /\ _action_count = 1
    /\ Len(EvaluateRequests) = 1
    /\ result = Returned(None)

\* C22: a call of trace_llm, with or without usage data in the response,
\* sends no request, returns None, and leaves every field of the session and
\* the record of the last action call as they were.
TraceIsPassive ==
    [][ (pc = "idle" /\ pc' = "idle" /\ ops' = ops + 1) =>
            /\ requests' = requests
            /\ session' = session
            /\ call' = call
            /\ result' = Returned(None)
      ]_vars

\* trace_llm was called twice on a started session and nothing else was sent
TracedTwice ==
    /\ ops = 2
    /\ pc = "idle"
    /\ driver = "cm"
    /\ Len(requests) = 1
    /\ _cost = 0

\* C24: once the start request of AgentWarden.session() has failed, the
\* caller has the transport error, the body was never run (no operation was
\* issued, the block was never left), and the start request is the only
\* request ever sent.
FailedStartIsFatal ==
    (driver = "cm" /\ result.exc.type = "TransportError" /\ Len(requests) > 0
        /\ IsStart(requests[Len(requests)])) =>
            /\ pc = "exited"
            /\ outcome = Raised(TransportError(StartPath))
            /\ exit = NoResult
            /\ call = NoCall
            /\ ops = 0
            /\ Len(requests) = 1

\* the start request of AgentWarden.session() has failed
StartFailedUnderContextManager ==
    /\ driver = "cm"
    /\ pc = "exited"
    /\ outcome = Raised(TransportError(StartPath))
    /\ Len(requests) = 1

\* C26: a session that has sent no start request sends no end request.
UnstartedEndIsRejected ==
    Len(StartRequests) = 0 => Len(EndRequests) = 0

\* C27: the step that invokes the unit of work invokes it once, and suspends
\* exactly when the work is a coroutine function or returns an awaitable;
\* the step in which the work ends gives the method the work's own value or
\* exception, after that one invocation.
RunCallableResolvesOnce ==
    [][ /\ call'.execs # call.execs =>
               \/ call'.execs = 0
               \/ /\ pc = "eval_wait"
                  /\ call'.execs = 1
                  /\ call.execute \in WorkKinds
                  /\ (pc' = "executing") <=> (call.execute \in {"coro", "sync_awaitable"})
        /\ (call.work.kind = "none" /\ call'.work.kind # "none") =>
               /\ call'.execs = 1
               /\ call'.ret = call'.work
               /\ result' = call'.work
               /\ pc' = "idle"
               /\ (pc = "executing") <=> (call.execute \in {"coro", "sync_awaitable"})
      ]_vars

\* a plain function returned an awaitable, which was awaited and gave "result"
AwaitableOfPlainFunctionResolved ==
    /\ pc = "idle"
    /\ call.execute = "sync_awaitable"
    /\ call.execs = 1
    /\ call.ret = Returned("result")

\* C28: under AgentWarden.session() the first request is the one start
\* request; nothing else is sent until it has succeeded; the evaluation
\* requests follow in the order of the calls; an end request is sent only
\* once the body has left the block, it is the last request, and it has been
\* sent whenever the block was left.
ContextManagerSequence ==
    driver = "cm" =>
        /\ Len(requests) > 0 => IsStart(requests[1])
        /\ Len(StartRequests) <= 1
        /\ pc \in {"new", "start_wait"} => Len(requests) <= 1
        /\ result = Raised(TransportError(StartPath)) => Len(requests) = 1
        /\ \A i \in 1..Len(EvaluateRequests) :
              EvaluateRequests[i].body.context.session_action_count = i
        /\ \A i \in 1..Len(requests) :
              IsEnd(requests[i]) =>
                  /\ i = Len(requests)
                  /\ exit.kind # "none"
                  /\ pc \in {"end_wait", "exited"}
        /\ exit.kind # "none" => IsEnd(requests[Len(requests)])

\* start, an evaluation, a score and the end request, in that order, with
\* the body run to its end
StartCallScoreEnd ==
    /\ driver = "cm"
    /\ pc = "exited"
    /\ Len(requests) = 4
    /\ IsStart(requests[1])
    /\ IsEvaluate(requests[2])
    /\ IsScore(requests[3])
    /\ IsEnd(requests[4])
    /\ outcome = Returned(None)

\* the tasks that asked for the default client: by get_default_client() or
\* by a decorated call without a client of its own
AskedForDefault ==
    {t \in Tasks : obtained[t].by # "none" /\ ~obtained[t].explicit}

\* C23: get_default_client() has constructed at most one client, and one
\* only if somebody asked for the default; every call of it, and every
\* decorated call without a client, obtained that one instance; a decorated
\* call with a client of its own obtained its own, and while only such calls
\* were made no default client exists.
DefaultClientCreatedOnce ==
    /\ constructed <= 1
    /\ constructed = Cardinality({_default_client} \ {NoClient})
    /\ AskedForDefault = {} <=> _default_client = NoClient
    /\ \A t \in AskedForDefault : obtained[t].warden = _default_client
    /\ \A t \in Tasks :
          (obtained[t].by = "governed" /\ obtained[t].explicit) =>
              obtained[t].warden = ExplicitClient

\* two decorated calls without a client and one call of get_default_client()
\* all hold the one default client
ThreeTasksShareDefault ==
    /\ obtained["t1"].by = "governed" /\ ~obtained["t1"].explicit
    /\ obtained["t2"].by = "governed" /\ ~obtained["t2"].explicit
    /\ obtained["t3"].by = "get_default_client"
    /\ obtained["t1"].pc = "in_session"
    /\ obtained["t2"].pc = "in_session"
    /\ constructed = 1

\* C25: in the three adapters, once score() has ended, whether answered or
\* failed, what leaves the body of the block is what was leaving the try
\* block before the score (the result of the run, or its exception), and
\* the end request has been sent right after the score request.
ScoreFailureIsSwallowed ==
    (run.adapter # "none" /\ run.scores > 0 /\ pc \in {"end_wait", "exited"}) =>
        /\ exit = run.leaving
        /\ exit.kind # "none"
        /\ Len(requests) >= 3
        /\ IsEnd(requests[Len(requests)])
        /\ IsScore(requests[Len(requests) - 1])
        /\ Len(EndRequests) = 1

\* the score request failed while the exception of the run was propagating,
\* and that exception is what leaves the block; end() has been called
ScoreFailedWhileRunFailed ==
    /\ run.adapter = "kickoff"
    /\ pc = "end_wait"
    /\ result = Raised(TransportError(ScorePath(session_id)))
    /\ exit = Raised(WorkError)

\* C29: in run() and run_streamed() the runner has been invoked only if the
\* chat evaluation was answered and let through; and when the chat
\* evaluation raised, the runner was never invoked, the caller receives that
\* exception, a score with task_completed = false was sent, and the end
\* request was sent last.
ChatGatesTheRun ==
    run.adapter \in {"run", "run_streamed"} =>
        /\ run.invoked > 0 =>
              /\ run.chat.got = "response"
              /\ run.chat.ret.kind = "return"
        /\ (pc = "exited" /\ run.chat.ret.kind = "raise") =>
              /\ run.invoked = 0
              /\ \E i \in 1..Len(requests) :
                    /\ IsScore(requests[i])
                    /\ requests[i].body.task_completed = FALSE
              /\ IsEnd(requests[Len(requests)])
              /\ outcome = run.chat.ret

\* C30: when a tool call or handoff of the run was denied and the session
\* was ended without failure, the caller of run() receives ActionDenied.
TraceDenialReachesCaller ==
    (run.adapter = "run" /\ pc = "exited" /\ run.trace_denied
        /\ result = Returned(None)) =>
            /\ outcome.kind = "raise"
            /\ outcome.exc.type = "ActionDenied"

\* the positions of the score requests among the requests sent
ScorePositions == {i \in 1..Len(requests) : IsScore(requests[i])}

\* C31: in the three adapters no score request is sent while the run is
\* still going on; once the run is over, whether it returned or raised,
\* exactly one score request has been sent, after every evaluation request
\* and immediately before the end request.
OneScorePerRun ==
    run.adapter # "none" =>
        /\ pc \in {"start_wait", "eval_wait", "running", "trace_wait"} =>
              ScorePositions = {}
        /\ (pc \in {"end_wait", "exited"} /\ Len(requests) > 1) =>
              /\ run.leaving.kind # "none"
              /\ ScorePositions = {Len(requests) - 1}
              /\ IsEnd(requests[Len(requests)])

\* the run was cancelled, one score was sent, then the end request
ScoredCancelledRun ==
    /\ run.adapter = "run"
    /\ pc = "exited"
    /\ run.leaving = Raised(Cancelled)
    /\ run.invoked = 1
    /\ ScorePositions = {3}
    /\ Len(requests) = 4

\* C32: every score request of an adapter reports task_completed = true
\* exactly when the run returned its result, and false when the run left by
\* an exception of any kind.
ScoreReportsOutcome ==
    run.adapter # "none" =>
        \A i \in ScorePositions :
            requests[i].body.task_completed = (run.leaving.kind = "return")

\* what the handler has sent, by kind and session
IsGoverned(r) == IsEvaluate(r) \/ IsScore(r)
KindOf(r) ==
    IF IsStart(r) THEN "start"
    ELSE IF IsEnd(r) THEN "end"
    ELSE IF IsGoverned(r) THEN "governed"
    ELSE "other"
SentFor(n, kind) ==
    {i \in 1..Len(handler.sent) :
        KindOf(handler.sent[i]) = kind /\ handler.sent[i].body.session_id = SessionId(n)}
HandlerSessions == 1..Len(handler.sessions)
HandlerQuiet == \A c \in Slots : handler.slots[c].event = "none"

\* C33: once every chain that started has ended and no callback is still
\* running, each session the handler started has received its end request,
\* and the handler holds no session.
EveryHandlerSessionEnded ==
    (HandlerQuiet /\ handler.open = 0) =>
        /\ \A n \in HandlerSessions : SentFor(n, "start") # {} => SentFor(n, "end") # {}
        /\ handler.events > 0 => handler._session = 0

\* C34: every evaluate or score request of the handler is sent for a session
\* whose start has completed successfully and whose end request has not been
\* issued yet.
GovernedOnlyWithinSession ==
    \A n \in HandlerSessions : \A i \in SentFor(n, "governed") :
        /\ handler.sent[i].start = "ok"
        /\ \A j \in SentFor(n, "end") : i < j

\* C35: the handler sends at most one start request and at most one end
\* request per session_id.
OneStartOneEndPerSession ==
    \A n \in HandlerSessions :
        /\ Cardinality(SentFor(n, "start")) <= 1
        /\ Cardinality(SentFor(n, "end")) <= 1

\* C36: the handler does not keep a session whose start failed, and sends no
\* evaluate or score request for it.
FailedStartNeverUsed ==
    \A n \in HandlerSessions :
        handler.sessions[n].start = "failed" =>
            /\ handler._session # n
            /\ SentFor(n, "governed") = {}

\* C37: no exception leaves on_tool_end, on_agent_action, on_agent_finish,
\* on_chain_start, on_chain_end or on_chain_error.
CallbacksNeverRaise ==
    \A x \in handler.raised :
        x.event \notin {"on_tool_end", "on_agent_action", "on_agent_finish",
                        "on_chain_start", "on_chain_end", "on_chain_error"}

====
